---- MODULE Spec2Model ----
(***************************************************************************)
(* State-machine model of cycle_hues (src/hues.py).                        *)
(*                                                                         *)
(* One call of cycle_hues is one behaviour: Init fixes the arguments and   *)
(* the environment (what is at image_path, whether output_path can be      *)
(* written), and the actions follow the statements of the function in      *)
(* program order.  Arrays live in a heap of objects so that copying and    *)
(* aliasing are distinguishable; uint8 arithmetic keeps its width.         *)
(***************************************************************************)
EXTENDS Integers, Sequences, FiniteSets, TLC

\* ------------------------------------------------------------------ bounds
MaxFrames == 4
MaxPixels == 2

\* --------------------------------------------------------------- constants
\* np.uint8 holds 0 .. 255; arithmetic on it is modulo 256
UInt8Mod == 256
\* the modulus written in the hue-shift and hue-update expressions
HueMod == 255
\* largest hue the library's RGB->HSV conversion emits: hue = int(h * 255)
\* with h in [0, 1)
MaxHue == 254

\* ------------------------------------------------------------------ inputs
\* what image_path refers to
FileStates == {"missing", "not_image", "truncated", "ok"}

\* output paths, as sequences of characters
OutputPaths ==
    { <<"a", ".", "g", "i", "f">>,
      <<"A", ".", "G", "i", "F">>,
      <<".", "g", "i", "f">>,
      <<"a", ".", "p", "n", "g">>,
      <<"g", "i", "f">> ,
      <<>> }

FrameCounts == (-1) .. MaxFrames

FrameDurations == {50, 100}

\* HSV pixels the conversion of the source can produce
PixelSamples ==
    { [h |-> 0,      s |-> 0,   v |-> 0],
      [h |-> 1,      s |-> 255, v |-> 255],
      [h |-> 100,    s |-> 128, v |-> 64],
      [h |-> 128,    s |-> 255, v |-> 10],
      [h |-> 200,    s |-> 7,   v |-> 255],
      [h |-> MaxHue, s |-> 90,  v |-> 200] }

\* flattened pixel arrays of 1 .. MaxPixels pixels
HsvArrays == UNION { [1 .. n -> PixelSamples] : n \in 1 .. MaxPixels }

\* ----------------------------------------------------------------- strings
\* str.lower() on the characters that occur
LowerChar(c) ==
    CASE c = "A" -> "a"
      [] c = "G" -> "g"
      [] c = "I" -> "i"
      [] c = "F" -> "f"
      [] OTHER   -> c

Lower(str) == [k \in 1 .. Len(str) |-> LowerChar(str[k])]

EndsWith(str, suffix) ==
    /\ Len(str) >= Len(suffix)
    /\ SubSeq(str, Len(str) - Len(suffix) + 1, Len(str)) = suffix

GifSuffix == <<".", "g", "i", "f">>

\* output_path.lower().endswith('.gif')
HasGifExtension(path) == EndsWith(Lower(path), GifSuffix)

\* os.path.isfile(image_path)
IsFileSkipped(fs) == TRUE

IsFile(fs) == fs # "missing"

\* ------------------------------------------------------------------ errors
NoError == [kind |-> "none", msg |-> "none"]

NotFoundError  == [kind |-> "FileNotFoundError", msg |-> "Input image not found."]
ExtensionError == [kind |-> "ValueError", msg |-> "Output path must have a .gif extension."]
FrameCountError == [kind |-> "ValueError", msg |-> "Number of frames must be at least 1."]
OpenError      == [kind |-> "ValueError", msg |-> "Failed to open image"]
SaveError      == [kind |-> "RuntimeError", msg |-> "Failed to save GIF"]
\* raised by the library inside img.convert("RGB"), not caught by cycle_hues
LoadError      == [kind |-> "OSError", msg |-> "image file is truncated"]

\* the three input checks, in program order; NoError when all pass
FirstFailedCheckFramesFirst(fs, path, n) ==
    IF ~IsFile(fs) THEN NotFoundError
    ELSE IF n < 1 THEN FrameCountError
    ELSE IF ~HasGifExtension(path) THEN ExtensionError
    ELSE NoError

FirstFailedCheck(fs, path, n) ==
    IF ~IsFile(fs) THEN NotFoundError
    ELSE IF ~HasGifExtension(path) THEN ExtensionError
    ELSE IF n < 1 THEN FrameCountError
    ELSE NoError

\* -------------------------------------------------------------- arithmetic
\* hue_shift = (255 * i // num_frames) % 255, on Python integers
HueShiftDivFirst(i, n) == (HueMod * (i \div n)) % HueMod
HueShiftOneBased(i, n) == ((HueMod * (i + 1)) \div n) % HueMod
HueShiftReversed(i, n) == ((HueMod * (n - i)) \div n) % HueMod

HueShift(i, n) == ((HueMod * i) \div n) % HueMod

\* uint8 array + small Python int: the sum stays uint8 and wraps modulo 256
UInt8Add(a, b) == (a + b) % UInt8Mod

\* (frame_array[:, :, 0] + hue_shift) % 255, elementwise on one element
ShiftedHue(h, shift) == UInt8Add(h, shift) % HueMod

\* frame_array[:, :, 0] = ... : only channel 0 of every pixel is written
WriteHueChannel(arr, shift) ==
    [p \in DOMAIN arr |-> [arr[p] EXCEPT !.h = ShiftedHue(arr[p].h, shift)]]

\* hsv_array.copy(): a new heap object with the same contents
CopyAliased(hp, ref) == [heap |-> hp, ref |-> ref]

Copy(hp, ref) == [heap |-> Append(hp, hp[ref]), ref |-> Len(hp) + 1]

\* gif_frames[0].save(..., append_images=gif_frames[1:]): what the encoder gets
EncoderInputSliceOff(frames) == <<frames[1]>> \o SubSeq(frames, 3, Len(frames))

EncoderInput(frames) == <<frames[1]>> \o SubSeq(frames, 2, Len(frames))

\* ------------------------------------------------------------------- state
VARIABLES
    pc,             \* position in cycle_hues
    file_state,     \* what image_path refers to
    output_path,    \* argument
    num_frames,     \* argument
    frame_duration, \* argument
    writable,       \* whether the encoder can write output_path
    opened,         \* Image.open has been called
    heap,           \* array objects, by reference
    hsv_array,      \* reference of the base HSV array (0: not yet created)
    base0,          \* contents of the base HSV array when it was created
    i,              \* loop index
    hue_shift,      \* local of the loop body
    gif_frames,     \* frames appended so far
    encoder_input,  \* frame sequence handed to the encoder (<<>>: not called)
    encoder_called, \* save() has been called
    written,        \* the output file, once written
    err             \* exception that left cycle_hues

vars == <<pc, file_state, output_path, num_frames, frame_duration, writable,
          opened, heap, hsv_array, base0, i, hue_shift, gif_frames,
          encoder_input, encoder_called, written, err>>

args == <<file_state, output_path, num_frames, frame_duration, writable>>

NoFile == [frames |-> <<>>, loop |-> -1, duration |-> -1]

Init ==
    /\ pc = "validate"
    /\ file_state \in FileStates
    /\ output_path \in OutputPaths
    /\ num_frames \in FrameCounts
    /\ frame_duration \in FrameDurations
    /\ writable \in BOOLEAN
    /\ opened = FALSE
    /\ heap = <<>>
    /\ hsv_array = 0
    /\ base0 = <<>>
    /\ i = 0
    /\ hue_shift = 0
    /\ gif_frames = <<>>
    /\ encoder_input = <<>>
    /\ encoder_called = FALSE
    /\ written = NoFile
    /\ err = NoError

Raise(e) ==
    /\ pc' = "raised"
    /\ err' = e

\* lines 20-25: the input checks
ValidateInputs ==
    /\ pc = "validate"
    /\ LET e == FirstFailedCheck(file_state, output_path, num_frames)
       IN  IF e = NoError
           THEN pc' = "open" /\ err' = err
           ELSE Raise(e)
    /\ UNCHANGED <<args, opened, heap, hsv_array, base0, i, hue_shift,
                   gif_frames, encoder_input, encoder_called, written>>

\* lines 28-31: Image.open inside try/except; the file is identified lazily,
\* pixel data is not read yet
OpenImage ==
    /\ pc = "open"
    /\ opened' = TRUE
    /\ IF file_state \in {"missing", "not_image"}
       THEN Raise(OpenError)
       ELSE pc' = "convert_rgb" /\ err' = err
    /\ UNCHANGED <<args, heap, hsv_array, base0, i, hue_shift, gif_frames,
                   encoder_input, encoder_called, written>>

\* line 34: img.convert("RGB") reads the pixel data; it is outside any try
ConvertRGB ==
    /\ pc = "convert_rgb"
    /\ IF file_state = "truncated"
       THEN Raise(LoadError)
       ELSE pc' = "convert_hsv" /\ err' = err
    /\ UNCHANGED <<args, opened, heap, hsv_array, base0, i, hue_shift,
                   gif_frames, encoder_input, encoder_called, written>>

\* lines 37-41: gif_frames = [], one conversion to HSV, the base uint8 array
ConvertHSV ==
    /\ pc = "convert_hsv"
    /\ \E arr \in HsvArrays :
          /\ heap' = <<arr>>
          /\ base0' = arr
    /\ hsv_array' = 1
    /\ gif_frames' = <<>>
    /\ i' = 0
    /\ pc' = "loop"
    /\ UNCHANGED <<args, opened, hue_shift, encoder_input, encoder_called,
                   written, err>>

\* lines 44-54: one iteration of the loop
LoopBody ==
    /\ pc = "loop"
    /\ i < num_frames
    /\ LET c     == Copy(heap, hsv_array)
           shift == HueShift(i, num_frames)
           hp    == [c.heap EXCEPT ![c.ref] = WriteHueChannel(c.heap[c.ref], shift)]
           \* the RGB image is recorded by the HSV array it was converted from
           new_img == [index |-> i, shift |-> shift, hsv |-> hp[c.ref]]
       IN  /\ heap' = hp
           /\ hue_shift' = shift
           /\ gif_frames' = Append(gif_frames, new_img)
    /\ i' = i + 1
    /\ UNCHANGED <<args, pc, opened, hsv_array, base0, encoder_input,
                   encoder_called, written, err>>

\* lines 57-66: the save, inside try/except
SaveGif ==
    /\ pc = "loop"
    /\ i >= num_frames
    /\ IF gif_frames = <<>>
       THEN \* gif_frames[0] raises IndexError inside the try
            /\ Raise(SaveError)
            /\ UNCHANGED <<encoder_input, encoder_called, written>>
       ELSE /\ encoder_called' = TRUE
            /\ encoder_input' = EncoderInput(gif_frames)
            /\ IF writable
               THEN /\ written' = [frames |-> EncoderInput(gif_frames),
                                   loop |-> 0, duration |-> frame_duration]
                    /\ pc' = "done"
                    /\ err' = err
               ELSE /\ Raise(SaveError)
                    /\ written' = written
    /\ UNCHANGED <<args, opened, heap, hsv_array, base0, i, hue_shift,
                   gif_frames>>

Next ==
    \/ ValidateInputs
    \/ OpenImage
    \/ ConvertRGB
    \/ ConvertHSV
    \/ LoopBody
    \/ SaveGif

Spec == Init /\ [][Next]_vars

TypeOK ==
    /\ pc \in {"validate", "open", "convert_rgb", "convert_hsv", "loop",
               "done", "raised"}
    /\ file_state \in FileStates
    /\ num_frames \in FrameCounts
    /\ opened \in BOOLEAN
    /\ i \in 0 .. MaxFrames + 1
    /\ hue_shift \in 0 .. 255
    /\ \A r \in DOMAIN heap : \A p \in DOMAIN heap[r] :
          /\ heap[r][p].h \in 0 .. 255
          /\ heap[r][p].s \in 0 .. 255
          /\ heap[r][p].v \in 0 .. 255

AllChecksPass ==
    /\ IsFile(file_state)
    /\ HasGifExtension(output_path)
    /\ num_frames >= 1

\* what the claims call "the input checks have passed", on the arguments
ChecksPassed ==
    /\ file_state # "missing"
    /\ HasGifExtension(output_path)
    /\ num_frames >= 1

\* ------------------------------------------------------------------ claims

\* C1: for every frame i and every pixel, the hue of frame i equals
\* (h + hue_shift(i)) mod 255 where h is the pixel's hue in the base HSV
\* array and the sum is the true integer sum (no 8-bit overflow, no
\* accumulation from frame to frame).
C1_HueIsTrueSumMod255 ==
    \A k \in DOMAIN gif_frames : \A p \in DOMAIN base0 :
        gif_frames[k].hsv[p].h =
            (base0[p].h + HueShift(gif_frames[k].index, num_frames)) % HueMod

\* C2: for every num_frames >= 1 and every frame index i in [0, num_frames),
\* the shift used for frame i is floor(255*i/num_frames) mod 255 and lies in
\* [0, 255).  The floor is stated by its defining inequalities.
C2_ShiftIsFloorMod255 ==
    \A k \in DOMAIN gif_frames :
        LET f == gif_frames[k]
        IN  /\ f.shift \in 0 .. (HueMod - 1)
            /\ \E q \in 0 .. (HueMod * f.index) :
                  /\ q * num_frames <= HueMod * f.index
                  /\ HueMod * f.index < (q + 1) * num_frames
                  /\ f.shift = q % HueMod

C2_Witness ==
    /\ pc = "done"
    /\ num_frames = 3
    /\ gif_frames[2].shift = 85
    /\ gif_frames[3].shift = 170

\* C3: when the encoder is called, all num_frames frames have been produced,
\* and the sequence it is handed has exactly num_frames frames in computation
\* order (index 0 first).
C3_EncoderGetsAllFramesInOrder ==
    encoder_called =>
        /\ i = num_frames
        /\ Len(gif_frames) = num_frames
        /\ Len(encoder_input) = num_frames
        /\ \A k \in DOMAIN encoder_input :
              /\ encoder_input[k].index = k - 1
              /\ encoder_input[k] = gif_frames[k]

C3_Witness ==
    /\ encoder_called
    /\ num_frames = 3
    /\ Len(encoder_input) = 3
    /\ encoder_input[3].index = 2

\* C4: frame 0 has hue shift 0 and its hue channel equals the hue channel of
\* the base HSV array at every pixel.
C4_FrameZeroKeepsHue ==
    /\ Len(gif_frames) >= 1 => gif_frames[1].index = 0
    /\ \A k \in DOMAIN gif_frames :
          gif_frames[k].index = 0 =>
              /\ gif_frames[k].shift = 0
              /\ \A p \in DOMAIN base0 : gif_frames[k].hsv[p].h = base0[p].h

C4_Witness ==
    /\ Len(gif_frames) >= 2
    /\ base0[1].h = MaxHue
    /\ gif_frames[1].hsv[1].h = MaxHue
    /\ gif_frames[2].hsv[1].h # MaxHue

\* C5: no decode attempt and no output write happens unless all input checks
\* have passed; a nonexistent input raises FileNotFoundError and a non-.gif
\* output path raises ValueError, each before any decode attempt.
C5_NoDecodeBeforeChecks ==
    /\ (opened \/ encoder_called \/ written # NoFile) => ChecksPassed
    /\ (pc = "raised" /\ file_state = "missing") =>
          (err.kind = "FileNotFoundError" /\ ~opened)
    /\ (pc = "raised" /\ file_state # "missing"
          /\ ~HasGifExtension(output_path)) =>
          (err.kind = "ValueError" /\ ~opened)

C5_Witness ==
    /\ pc = "raised"
    /\ file_state = "missing"
    /\ HasGifExtension(output_path)
    /\ num_frames >= 1
    /\ err.kind = "FileNotFoundError"
    /\ ~opened

\* C6: a decode failure (the input exists but cannot be opened as an image)
\* is raised with an error kind different from the kinds raised by the
\* input-validation checks.
C6_DecodeKindDistinct ==
    (pc = "raised" /\ opened /\ file_state = "not_image") =>
        err.kind \notin {ExtensionError.kind, FrameCountError.kind}

\* C7: in every frame the saturation and value channels equal those of the
\* base HSV array, and the base HSV array is unchanged after every loop
\* iteration.
C7_OnlyHueDiffers ==
    /\ \A k \in DOMAIN gif_frames :
          /\ DOMAIN gif_frames[k].hsv = DOMAIN base0
          /\ \A p \in DOMAIN base0 :
                /\ gif_frames[k].hsv[p].s = base0[p].s
                /\ gif_frames[k].hsv[p].v = base0[p].v
    /\ hsv_array # 0 => heap[hsv_array] = base0

C7_Witness ==
    /\ Len(gif_frames) >= 2
    /\ gif_frames[2].hsv # base0
    /\ gif_frames[2].hsv[1].s = base0[1].s
    /\ heap[hsv_array] = base0

\* C8: for fixed num_frames, hue_shift(i) is non-decreasing in i over
\* 0 <= i < num_frames.
C8_ShiftsNonDecreasing ==
    \A a, b \in DOMAIN gif_frames :
        gif_frames[a].index < gif_frames[b].index =>
            gif_frames[a].shift <= gif_frames[b].shift

C8_Witness ==
    /\ Len(gif_frames) = 3
    /\ gif_frames[1].shift < gif_frames[2].shift
    /\ gif_frames[2].shift < gif_frames[3].shift

\* C9: once the input checks have passed, every failure is one of the two
\* wrapped kinds: a failure while opening or converting the source is the
\* "Failed to open image" error, a failure while saving is the
\* "Failed to save GIF" error, and nothing else escapes.
C9_OnlyWrappedErrors ==
    (pc = "raised" /\ ChecksPassed) =>
        /\ err \in {OpenError, SaveError}
        /\ hsv_array = 0 => err = OpenError
        /\ hsv_array # 0 => err = SaveError

\* C10: the error reported for a call violating input constraints is the
\* first failing check in the order: input exists, output ends in .gif,
\* num_frames >= 1; and an error is present only once the call has raised.
C10_FirstFailingCheckWins ==
    /\ err # NoError => pc = "raised"
    /\ (pc = "raised" /\ file_state = "missing") => err = NotFoundError
    /\ (pc = "raised" /\ file_state # "missing"
          /\ ~HasGifExtension(output_path)) => err = ExtensionError
    /\ (pc = "raised" /\ file_state # "missing"
          /\ HasGifExtension(output_path) /\ num_frames < 1) =>
          err = FrameCountError

C10_Witness ==
    /\ pc = "raised"
    /\ file_state # "missing"
    /\ ~HasGifExtension(output_path)
    /\ num_frames < 1
    /\ err = ExtensionError

====
